---- MODULE Spec2Model ----
(***************************************************************************)
(* Model of backend/utils.py: the module globals SYSTEM_PROMPT and         *)
(* MODEL_NAME and the function get_agent_response, which puts the system   *)
(* prompt in front of a conversation when it does not start with a system  *)
(* message, calls litellm.completion once, strips the first choice's       *)
(* content and returns the request extended by one assistant message.      *)
(*                                                                         *)
(* Python lists are objects: the heap maps references to list values, so   *)
(* that `current_messages = messages` is an alias and `a + b` is a fresh   *)
(* list.  Message contents are sequences of characters, so that str.strip  *)
(* is computed and not assumed.                                            *)
(***************************************************************************)
EXTENDS Integers, Sequences, FiniteSets, TLC

VARIABLES SYSTEM_PROMPT, MODEL_NAME, heap, pc, messages, current_messages,
          completion, updated_messages, sent, calls, turn, before

\* SYSTEM_PROMPT, MODEL_NAME  the module globals (lines 19-162, 165)
\* heap              the list objects: heap[0] holds the callers' lists,
\*                   heap[i] the lists invocation i allocated; a reference
\*                   is <<owner, index>>
\* pc                where each invocation stands: idle, build (186-190),
\*                   call (192-195), reply (197-204), returned, raised
\* messages          the parameter: a reference to the caller's list
\* current_messages  the local of lines 186-190: a reference
\* completion        what litellm.completion did: raised, or its response
\* updated_messages  the local of line 203, the return value: a reference
\* sent              the arguments the provider received last
\* calls             provider calls made by the invocation so far
\* turn              the number of the call in the caller's session
\* before            the value of the caller's list when the call began
vars == <<SYSTEM_PROMPT, MODEL_NAME, heap, pc, messages, current_messages,
          completion, updated_messages, sent, calls, turn, before>>

\* ------------------------------------------------------------------ bounds
\* longest history the caller starts a session with
MaxLen == 2
\* longest raw reply content of the provider
MaxReply == 3
\* calls of get_agent_response in one session
MaxTurns == 2
\* invocations running at the same time
NumProcs == 2
\* longest raw reply content while invocations run concurrently
MaxReplyConc == 1

Procs == 1 .. NumProcs

\* the caller's thread in the sequential specification
MainProc == CHOOSE i \in Procs : \A j \in Procs : i <= j

\* ------------------------------------------------------------- text values
\* characters str.strip() removes (no argument: whitespace)
Whitespace == {" ", "\t", "\n", "\r"}

\* the characters replies are drawn from
ReplyChars == {" ", "a"}

\* the text of the prompt, abbreviated: it starts with two newlines
PromptText == <<"\n", "\n", "Y">>

\* the model names os.environ.get can give: the variable's value or the default
ModelNames == {"env-model", "gpt-4o-mini"}

RECURSIVE lstrip(_)
lstrip(s) ==
    IF s = <<>> THEN s
    ELSE IF Head(s) \in Whitespace THEN lstrip(Tail(s)) ELSE s

RECURSIVE rstrip(_)
rstrip(s) ==
    IF s = <<>> THEN s
    ELSE IF s[Len(s)] \in Whitespace THEN rstrip(SubSeq(s, 1, Len(s) - 1)) ELSE s

\* str.strip()
strip_left_only(s) == lstrip(s)
strip(s) == rstrip(lstrip(s))

\* ---------------------------------------------------------------- messages
Message(r, c) == [role |-> r, content |-> c]

SystemMessage == Message("system", SYSTEM_PROMPT)

AssistantMessage(c) == Message("assistant", c)

\* the messages a caller's history is made of
InputMessages ==
    { Message("system", PromptText), Message("system", <<"c">>),
      Message("user", <<"u">>), Message("assistant", <<"r">>) }

SeqsUpTo(S, n) == UNION { [1 .. k -> S] : k \in 0 .. n }

Histories == SeqsUpTo(InputMessages, MaxLen)

\* the lists the callers hold while invocations run concurrently: one for
\* each branch of the test on the first message
ConcLists ==
    << <<>>,
       << Message("system", <<"c">>), Message("user", <<"u">>) >>,
       << Message("user", <<"u">>) >> >>

\* the user's next message in a session
UserMessages == { Message("user", <<"u">>) }

\* ------------------------------------------------------------------- heap
NoRef == <<0, 0>>

Deref(r) == heap[r[1]][r[2]]

\* the reference a list allocated by owner o gets
NewRef(o) == <<o, Len(heap[o]) + 1>>

\* ---------------------------------------------------------- provider values
NoCompletion == [status |-> "none", choices |-> <<>>]

Exception == [status |-> "exception", choices |-> <<>>]

Choice(has, c) == [has_content |-> has, content |-> c]

Response(cs) == [status |-> "response", choices |-> cs]

\* what litellm.completion can return: no choice, a choice without content,
\* one choice, or two choices
Responses(n) ==
    { Response(<<>>), Response(<<Choice(FALSE, <<>>)>>) }
    \cup { Response(<<Choice(TRUE, c)>>) : c \in SeqsUpTo(ReplyChars, n) }
    \cup { Response(<<Choice(TRUE, c), Choice(TRUE, <<"b">>)>>) :
             c \in SeqsUpTo(ReplyChars, 1) }

\* completion["choices"][0]["message"]["content"].strip() evaluates
WellFormed(c) == Len(c.choices) >= 1 /\ c.choices[1].has_content

\* ------------------------------------------------- get_agent_response, pure
needs_prompt_always(msgs) == TRUE
needs_prompt_if_no_system(msgs) == \A k \in 1 .. Len(msgs) : msgs[k].role # "system"
needs_prompt_by_content(msgs) == msgs = <<>> \/ msgs[1] # SystemMessage
NeedsPrompt(msgs) == msgs = <<>> \/ msgs[1].role # "system"

prompt_appended(msgs) == msgs \o <<SystemMessage>>
WithPrompt(msgs) == <<SystemMessage>> \o msgs

updated_skip_empty(cur, c) == IF c = <<>> THEN cur ELSE cur \o <<AssistantMessage(c)>>
UpdatedMessages(cur, c) == cur \o <<AssistantMessage(c)>>

\* ---------------------------------------------------------------- initial
TypeOK ==
    /\ SYSTEM_PROMPT = PromptText
    /\ MODEL_NAME \in ModelNames
    /\ pc \in [Procs -> {"off", "idle", "build", "call", "reply", "returned", "raised"}]
    /\ \A i \in Procs : calls[i] \in Nat /\ turn[i] \in 0 .. MaxTurns

InitFrames ==
    /\ SYSTEM_PROMPT = PromptText
    /\ MODEL_NAME \in ModelNames
    /\ messages = [i \in Procs |-> NoRef]
    /\ current_messages = [i \in Procs |-> NoRef]
    /\ completion = [i \in Procs |-> NoCompletion]
    /\ updated_messages = [i \in Procs |-> NoRef]
    /\ sent = [i \in Procs |-> [model |-> "", messages |-> <<>>]]
    /\ calls = [i \in Procs |-> 0]
    /\ turn = [i \in Procs |-> 0]
    /\ before = [i \in Procs |-> <<>>]

\* one caller, holding one history
Init ==
    /\ InitFrames
    /\ \E h \in Histories : heap = [o \in 0 .. NumProcs |-> IF o = 0 THEN <<h>> ELSE <<>>]
    /\ pc = [i \in Procs |-> IF i = MainProc THEN "idle" ELSE "off"]

\* several callers, holding the lists of ConcLists
InitConc ==
    /\ InitFrames
    /\ heap = [o \in 0 .. NumProcs |-> IF o = 0 THEN ConcLists ELSE <<>>]
    /\ pc = [i \in Procs |-> "idle"]

\* ----------------------------------------------------------------- actions
\* the caller calls get_agent_response(messages) with its list k
Invoke(i, k) ==
    /\ pc[i] = "idle"
    /\ k \in 1 .. Len(heap[0])
    /\ messages' = [messages EXCEPT ![i] = <<0, k>>]
    /\ before' = [before EXCEPT ![i] = heap[0][k]]
    /\ turn' = [turn EXCEPT ![i] = 1]
    /\ pc' = [pc EXCEPT ![i] = "build"]
    /\ UNCHANGED <<SYSTEM_PROMPT, MODEL_NAME, heap, current_messages, completion,
                   updated_messages, sent, calls>>

\* a global current_messages instead of a local one
build_global(i) ==
    /\ pc[i] = "build"
    /\ IF NeedsPrompt(Deref(messages[i]))
         THEN /\ heap' = [heap EXCEPT ![i] = Append(@, WithPrompt(Deref(messages[i])))]
              /\ current_messages' = [j \in Procs |-> NewRef(i)]
         ELSE /\ current_messages' = [j \in Procs |-> messages[i]]
              /\ UNCHANGED heap
    /\ pc' = [pc EXCEPT ![i] = "call"]
    /\ UNCHANGED <<SYSTEM_PROMPT, MODEL_NAME, messages, completion, updated_messages,
                   sent, calls, turn, before>>

\* lines 186-190: the request is a fresh list with the prompt in front, or
\* the caller's list itself
Build(i) ==
    /\ pc[i] = "build"
    /\ IF NeedsPrompt(Deref(messages[i]))
         THEN /\ heap' = [heap EXCEPT ![i] = Append(@, WithPrompt(Deref(messages[i])))]
              /\ current_messages' = [current_messages EXCEPT ![i] = NewRef(i)]
         ELSE /\ current_messages' = [current_messages EXCEPT ![i] = messages[i]]
              /\ UNCHANGED heap
    /\ pc' = [pc EXCEPT ![i] = "call"]
    /\ UNCHANGED <<SYSTEM_PROMPT, MODEL_NAME, messages, completion, updated_messages,
                   sent, calls, turn, before>>

\* the provider is sent the model name and the request as it is now
Send(i) ==
    /\ sent' = [sent EXCEPT ![i] = [model |-> MODEL_NAME,
                                    messages |-> Deref(current_messages[i])]]
    /\ calls' = [calls EXCEPT ![i] = @ + 1]

\* a failed call is tried once more
call_raises_retry(i) ==
    /\ pc[i] = "call"
    /\ Send(i)
    /\ completion' = [completion EXCEPT ![i] = Exception]
    /\ pc' = [pc EXCEPT ![i] = IF calls[i] = 0 THEN "call" ELSE "raised"]
    /\ UNCHANGED <<SYSTEM_PROMPT, MODEL_NAME, heap, messages, current_messages,
                   updated_messages, turn, before>>

\* lines 192-195: litellm.completion raises; nothing catches it
CallRaises(i) ==
    /\ pc[i] = "call"
    /\ Send(i)
    /\ completion' = [completion EXCEPT ![i] = Exception]
    /\ pc' = [pc EXCEPT ![i] = "raised"]
    /\ UNCHANGED <<SYSTEM_PROMPT, MODEL_NAME, heap, messages, current_messages,
                   updated_messages, turn, before>>

\* lines 192-195: litellm.completion returns the response c
CallReturns(i, c) ==
    /\ pc[i] = "call"
    /\ Send(i)
    /\ completion' = [completion EXCEPT ![i] = c]
    /\ pc' = [pc EXCEPT ![i] = "reply"]
    /\ UNCHANGED <<SYSTEM_PROMPT, MODEL_NAME, heap, messages, current_messages,
                   updated_messages, turn, before>>

\* current_messages.append(...) instead of current_messages + [...]
reply_in_place(i) ==
    /\ pc[i] = "reply"
    /\ IF WellFormed(completion[i])
         THEN /\ heap' = [heap EXCEPT ![current_messages[i][1]][current_messages[i][2]] =
                            UpdatedMessages(@, strip(completion[i].choices[1].content))]
              /\ updated_messages' = [updated_messages EXCEPT ![i] = current_messages[i]]
              /\ pc' = [pc EXCEPT ![i] = "returned"]
         ELSE /\ pc' = [pc EXCEPT ![i] = "raised"]
              /\ UNCHANGED <<heap, updated_messages>>
    /\ UNCHANGED <<SYSTEM_PROMPT, MODEL_NAME, messages, current_messages, completion,
                   sent, calls, turn, before>>

\* messages + [...] instead of current_messages + [...]
reply_from_input(i) ==
    /\ pc[i] = "reply"
    /\ IF WellFormed(completion[i])
         THEN /\ heap' = [heap EXCEPT ![i] = Append(@,
                            UpdatedMessages(Deref(messages[i]),
                                            strip(completion[i].choices[1].content)))]
              /\ updated_messages' = [updated_messages EXCEPT ![i] = NewRef(i)]
              /\ pc' = [pc EXCEPT ![i] = "returned"]
         ELSE /\ pc' = [pc EXCEPT ![i] = "raised"]
              /\ UNCHANGED <<heap, updated_messages>>
    /\ UNCHANGED <<SYSTEM_PROMPT, MODEL_NAME, messages, current_messages, completion,
                   sent, calls, turn, before>>

\* lines 197-204: index the first choice's content and strip it (an
\* IndexError, KeyError or AttributeError propagates), then return a fresh
\* list: the request and the assistant's message
Reply(i) ==
    /\ pc[i] = "reply"
    /\ IF WellFormed(completion[i])
         THEN /\ heap' = [heap EXCEPT ![i] = Append(@,
                            UpdatedMessages(Deref(current_messages[i]),
                                            strip(completion[i].choices[1].content)))]
              /\ updated_messages' = [updated_messages EXCEPT ![i] = NewRef(i)]
              /\ pc' = [pc EXCEPT ![i] = "returned"]
         ELSE /\ pc' = [pc EXCEPT ![i] = "raised"]
              /\ UNCHANGED <<heap, updated_messages>>
    /\ UNCHANGED <<SYSTEM_PROMPT, MODEL_NAME, messages, current_messages, completion,
                   sent, calls, turn, before>>

\* the caller appends the user's message u to the returned history and
\* calls get_agent_response again
NextTurn(i, u) ==
    /\ pc[i] = "returned"
    /\ turn[i] < MaxTurns
    /\ heap' = [heap EXCEPT ![0] = Append(@, Append(Deref(updated_messages[i]), u))]
    /\ messages' = [messages EXCEPT ![i] = NewRef(0)]
    /\ before' = [before EXCEPT ![i] = Append(Deref(updated_messages[i]), u)]
    /\ current_messages' = [current_messages EXCEPT ![i] = NoRef]
    /\ completion' = [completion EXCEPT ![i] = NoCompletion]
    /\ updated_messages' = [updated_messages EXCEPT ![i] = NoRef]
    /\ calls' = [calls EXCEPT ![i] = 0]
    /\ turn' = [turn EXCEPT ![i] = @ + 1]
    /\ pc' = [pc EXCEPT ![i] = "build"]
    /\ UNCHANGED <<SYSTEM_PROMPT, MODEL_NAME, sent>>

\* ------------------------------------------------------------ specifications
Next ==
    \/ \E i \in Procs, k \in 1 .. Len(heap[0]) : Invoke(i, k)
    \/ \E i \in Procs : Build(i)
    \/ \E i \in Procs : CallRaises(i)
    \/ \E i \in Procs, c \in Responses(MaxReply) : CallReturns(i, c)
    \/ \E i \in Procs : Reply(i)
    \/ \E i \in Procs, u \in UserMessages : NextTurn(i, u)

\* a session of one caller: a history, then turn after turn
Spec == Init /\ [][Next]_vars

NextConc ==
    \/ \E i \in Procs, k \in 1 .. Len(heap[0]) : Invoke(i, k)
    \/ \E i \in Procs : Build(i)
    \/ \E i \in Procs : CallRaises(i)
    \/ \E i \in Procs, c \in Responses(MaxReplyConc) : CallReturns(i, c)
    \/ \E i \in Procs : Reply(i)

\* concurrent invocations, one call each, on lists they may share
SpecConc == InitConc /\ [][NextConc]_vars

\* ------------------------------------------------------- what the claims use
\* invocation i has made its provider call
Sent(i) == pc[i] \in {"reply", "returned", "raised"}

Returned(i) == pc[i] = "returned"

\* the sequence invocation i sent to the provider
Request(i) == sent[i].messages

\* the sequence invocation i returned
Result(i) == Deref(updated_messages[i])

\* the content of the provider's first choice
RawReply(i) == completion[i].choices[1].content

StartsWithSystem(h) == h # <<>> /\ h[1].role = "system"

ThePrompt == [role |-> "system", content |-> PromptText]

\* t is s without its leading and trailing whitespace, and nothing else changed
IsTrimOf(t, s) ==
    /\ \E m, n \in 0 .. Len(s) :
          /\ m + n <= Len(s)
          /\ t = SubSeq(s, m + 1, Len(s) - n)
          /\ \A k \in 1 .. m : s[k] \in Whitespace
          /\ \A k \in (Len(s) - n + 1) .. Len(s) : s[k] \in Whitespace
    /\ t # <<>> => t[1] \notin Whitespace /\ t[Len(t)] \notin Whitespace

\* exactly one system message, at the front, with the prompt as its content
OneSystemAtHead(s) ==
    /\ s # <<>>
    /\ s[1] = ThePrompt
    /\ \A k \in 2 .. Len(s) : s[k].role # "system"

\* C1: a history that starts with a system message, whatever its content, is
\* sent to the provider as it is: same length, same elements, same order
C1_SystemFirstSentVerbatim ==
    \A i \in Procs :
        Sent(i) /\ StartsWithSystem(before[i]) => Request(i) = before[i]

C1_Witness ==
    \E i \in Procs :
        /\ Sent(i) /\ StartsWithSystem(before[i])
        /\ before[i][1].content # PromptText
        /\ Len(before[i]) >= 2
        /\ Request(i) = before[i]

\* C2: a history that is empty or does not start with a system message is
\* sent as the prompt's system message followed by its elements in order,
\* also when a system message stands later in it
C2_PromptPrepended ==
    \A i \in Procs :
        Sent(i) /\ ~StartsWithSystem(before[i]) =>
            /\ Len(Request(i)) = Len(before[i]) + 1
            /\ Request(i)[1] = ThePrompt
            /\ \A k \in 1 .. Len(before[i]) : Request(i)[k + 1] = before[i][k]

C2_Witness ==
    \E i \in Procs :
        /\ Sent(i)
        /\ Len(before[i]) = 2
        /\ before[i][1].role = "user"
        /\ before[i][2].role = "system"
        /\ Len(Request(i)) = 3

\* C3: the returned sequence is the sent sequence and one more element, an
\* assistant message
C3_ResultIsRequestPlusAssistant ==
    \A i \in Procs :
        Returned(i) =>
            /\ Len(Result(i)) = Len(Request(i)) + 1
            /\ SubSeq(Result(i), 1, Len(Request(i))) = Request(i)
            /\ Result(i)[Len(Result(i))].role = "assistant"

C3_Witness ==
    \E i \in Procs :
        /\ Returned(i)
        /\ before[i] # <<>>
        /\ Len(Request(i)) = Len(before[i]) + 1
        /\ Len(Result(i)) = Len(Request(i)) + 1

\* C4: the assistant message's content is the first choice's content without
\* its leading and trailing whitespace and otherwise unchanged; a reply of
\* whitespace alone gives an assistant message with empty content
C4_ContentIsTrimmedReply ==
    \A i \in Procs :
        /\ Returned(i) =>
              IsTrimOf(Result(i)[Len(Result(i))].content, RawReply(i))
        /\ ( /\ pc[i] \in {"returned", "raised"}
             /\ completion[i].status = "response"
             /\ WellFormed(completion[i])
             /\ \A k \in 1 .. Len(RawReply(i)) : RawReply(i)[k] \in Whitespace )
           => /\ Returned(i)
              /\ Result(i)[Len(Result(i))] = [role |-> "assistant", content |-> <<>>]

C4_Witness ==
    \E i \in Procs :
        /\ Returned(i)
        /\ RawReply(i) = <<" ", "a", " ">>
        /\ Result(i)[Len(Result(i))].content = <<"a">>

C4_WitnessInterior ==
    \E i \in Procs :
        /\ Returned(i)
        /\ RawReply(i) = <<"a", " ", "a">>
        /\ Result(i)[Len(Result(i))].content = <<"a", " ", "a">>

C4_WitnessBlank ==
    \E i \in Procs :
        /\ Returned(i)
        /\ RawReply(i) = <<" ", " ">>
        /\ Result(i)[Len(Result(i))].content = <<>>

\* C5 as stated: the first element of every request is the system message
\* with the prompt as its content
C5_RequestStartsWithThePrompt ==
    \A i \in Procs : Sent(i) => Request(i) # <<>> /\ Request(i)[1] = ThePrompt

\* C5 as amended: the first element of every request is a system message;
\* its content is the prompt when the history was empty or did not start
\* with a system message, and the history's own first message otherwise
C5_RequestStartsWithSystem ==
    \A i \in Procs :
        Sent(i) =>
            /\ Request(i) # <<>>
            /\ Request(i)[1].role = "system"
            /\ ~StartsWithSystem(before[i]) => Request(i)[1] = ThePrompt
            /\ StartsWithSystem(before[i]) => Request(i)[1] = before[i][1]

C5_Witness ==
    \E i \in Procs :
        /\ Sent(i)
        /\ StartsWithSystem(before[i])
        /\ Request(i)[1].role = "system"
        /\ Request(i)[1].content # PromptText

\* C6 as stated: the returned sequence is one longer than the history
C6_ResultOneLongerThanInput ==
    \A i \in Procs : Returned(i) => Len(Result(i)) = Len(before[i]) + 1

\* C6 as amended: the returned sequence is one longer than the history when
\* the history starts with a system message, and two longer otherwise
C6_ResultLength ==
    \A i \in Procs :
        Returned(i) =>
            Len(Result(i)) = Len(before[i]) + (IF StartsWithSystem(before[i]) THEN 1 ELSE 2)

C6_Witness ==
    \E i \in Procs :
        /\ Returned(i)
        /\ ~StartsWithSystem(before[i])
        /\ Len(Result(i)) = Len(before[i]) + 2

\* the provider call of invocation i failed, or its response could not be
\* indexed for the first choice's content
Failed(i) ==
    \/ completion[i].status = "exception"
    \/ completion[i].status = "response" /\ ~WellFormed(completion[i]) /\ pc[i] # "reply"

\* C7: a failed provider call or a response without choices[0].message.content
\* ends the invocation with the failure: nothing is returned, no assistant
\* message is appended anywhere, and the provider is called once per
\* invocation, failed or not
C7_FailurePropagates ==
    \A i \in Procs :
        /\ calls[i] <= 1
        /\ Sent(i) => calls[i] = 1
        /\ Failed(i) =>
              /\ pc[i] = "raised"
              /\ updated_messages[i] = NoRef
              /\ Deref(messages[i]) = before[i]
              /\ Deref(current_messages[i]) = Request(i)

C7_Witness ==
    \E i \in Procs :
        /\ pc[i] = "raised"
        /\ completion[i].status = "response"
        /\ completion[i].choices = <<>>
        /\ calls[i] = 1

C7_WitnessException ==
    \E i \in Procs : pc[i] = "raised" /\ completion[i].status = "exception" /\ calls[i] = 1

\* the request get_agent_response makes of the history h
ExpectedRequest(h) == IF StartsWithSystem(h) THEN h ELSE <<ThePrompt>> \o h

\* what invocation i holds: its frame and the lists it allocated
Frame(i) ==
    <<pc[i], messages[i], current_messages[i], completion[i], updated_messages[i],
      sent[i], calls[i], turn[i], before[i], heap[i]>>

ConcResults ==
    \A i \in Procs :
        /\ Sent(i) => sent[i] = [model |-> MODEL_NAME, messages |-> ExpectedRequest(before[i])]
        /\ Returned(i) =>
              Result(i) = ExpectedRequest(before[i])
                            \o <<[role |-> "assistant", content |-> strip(RawReply(i))]>>

ConcFrames ==
    /\ SYSTEM_PROMPT' = SYSTEM_PROMPT
    /\ MODEL_NAME' = MODEL_NAME
    /\ heap'[0] = heap[0]
    /\ \A i, j \in Procs : i # j /\ Frame(i)' # Frame(i) => Frame(j)' = Frame(j)

\* C8: under every interleaving of concurrent invocations, what each sends
\* and returns is decided by its own history and its own reply, a step of one
\* invocation changes nothing another one holds, and no step writes
\* MODEL_NAME, SYSTEM_PROMPT or a list of the callers
C8_InvocationsIndependent == []ConcResults /\ [][ConcFrames]_vars

C8_Witness ==
    \E i, j \in Procs :
        /\ i # j
        /\ Returned(i) /\ Returned(j)
        /\ messages[i] = messages[j]
        /\ StartsWithSystem(before[i])
        /\ RawReply(i) # RawReply(j)
        /\ Result(i) # Result(j)

\* the session began with a history without any system message
SessionWithoutSystem == \A k \in 1 .. Len(heap[0][1]) : heap[0][1][k].role # "system"

\* C9: in a session that begins without a system message, every request and
\* every returned history has exactly one system message, the prompt at the
\* front; the first call puts it there, later calls send the history as it
\* is and return it one message longer
C9_PromptInjectedOnce ==
    SessionWithoutSystem =>
        \A i \in Procs :
            /\ Sent(i) => OneSystemAtHead(Request(i))
            /\ Returned(i) => OneSystemAtHead(Result(i))
            /\ Sent(i) /\ turn[i] = 1 => Len(Request(i)) = Len(before[i]) + 1
            /\ Sent(i) /\ turn[i] >= 2 => Request(i) = before[i]
            /\ Returned(i) /\ turn[i] >= 2 => Len(Result(i)) = Len(before[i]) + 1

C9_Witness ==
    /\ SessionWithoutSystem
    /\ heap[0][1] # <<>>
    /\ \E i \in Procs :
          /\ Returned(i)
          /\ turn[i] = 2
          /\ OneSystemAtHead(Result(i))
          /\ Len(Result(i)) = Len(heap[0][1]) + 4

\* C10: the caller's list is, during and after the call, returned or raised,
\* what it was before the call, and the returned list is another list
C10_InputNotMutated ==
    \A i \in Procs :
        pc[i] \in {"build", "call", "reply", "returned", "raised"} =>
            /\ Deref(messages[i]) = before[i]
            /\ Returned(i) => updated_messages[i] # messages[i]

C10_Witness ==
    \E i \in Procs :
        /\ Returned(i)
        /\ current_messages[i] = messages[i]
        /\ Deref(messages[i]) = before[i]
        /\ Len(Result(i)) = Len(before[i]) + 1

C10_WitnessRaised ==
    \E i \in Procs :
        /\ pc[i] = "raised"
        /\ current_messages[i] = messages[i]
        /\ Deref(messages[i]) = before[i]

====
